---- MODULE Spec2Model ----
(***************************************************************************)
(* Switch inventory report (src/main.py): the batch driver                *)
(* execute_data_requests, the device collector get_switch_details with    *)
(* its port table parse, and the fact extractor get_version_detail.       *)
(*                                                                         *)
(* Text is modelled character by character: a Python str is a sequence of *)
(* one-character strings, so that `in`, str.lower, str.split and          *)
(* str.splitlines are computed as Python computes them.                   *)
(***************************************************************************)
EXTENDS Integers, Sequences, FiniteSets, TLC

VARIABLES
    config,         \* the imported [config.json] content (_config)
    pc,             \* position of the run inside execute_data_requests / get_switch_details
    fi,             \* index of the family the outer loop is at (for device_type in _devices)
    di,             \* index of the device the inner loop is at (for device in _devices[device_type])
    results,        \* execute_data_requests: the current family's table
    data,           \* execute_data_requests: family -> table
    host,           \* get_switch_details: _json['host']
    serial_number,  \* get_switch_details local
    device_model,   \* get_switch_details local (unbound until assigned)
    interfaces,     \* get_switch_details local
    ports,          \* get_switch_details local
    details,        \* the value get_switch_details returned (_details)
    open,           \* number of device sessions currently open
    events,         \* session events of the current get_switch_details call
    calls,          \* history: one record per get_switch_details call of the run
    fx_in,          \* get_version_detail: the arguments (version_info, detail)
    fx_out,         \* get_version_detail: the returned value
    pn_in,          \* port table parse: the host, facts and interfaces response
    pn_out          \* port table parse: the ports built and the value returned

vars == <<config, pc, fi, di, results, data, host, serial_number, device_model,
          interfaces, ports, details, open, events, calls, fx_in, fx_out, pn_in, pn_out>>

driverVars == <<config, pc, fi, di, results, data, host, serial_number, device_model,
                interfaces, ports, details, open, events, calls>>

----------------------------------------------------------------------------
(* Bounds of the model.                                                    *)

\* hosts listed in a roster, over all its families
MaxDevices == 2
\* interface records in one "show interfaces status" response (port parse runs)
MaxPorts == 3
\* lines of one "show version" response (fact extractor runs)
MaxLines == 2

----------------------------------------------------------------------------
(* Python values.                                                          *)

\* None, and a local name that was never assigned.  Both hold a blank, which
\* no whitespace-delimited token can, so neither collides with a parsed value.
PyNone == "<None object>"
Unbound == "<unbound local>"

\* 'No data' (get_version_detail, lines 294 and 300)
NoData == "No data"

\* the characters str.split() and str.splitlines() act on
Whitespace == {" ", "\t", "\n", "\r"}
LineBreaks == {"\n", "\r"}

UpperAlphabet ==
    <<"A", "B", "C", "D", "E", "F", "G", "H", "I", "J", "K", "L", "M", "N", "O", "P", "Q", "R", "S", "T", "U", "V", "W", "X", "Y", "Z">>
LowerAlphabet ==
    <<"a", "b", "c", "d", "e", "f", "g", "h", "i", "j", "k", "l", "m", "n", "o", "p", "q", "r", "s", "t", "u", "v", "w", "x", "y", "z">>

\* str.lower() of one character
LowerChar(c) ==
    IF \E i \in 1..Len(UpperAlphabet) : UpperAlphabet[i] = c
    THEN LowerAlphabet[CHOOSE i \in 1..Len(UpperAlphabet) : UpperAlphabet[i] = c]
    ELSE c

\* line.lower()
Lower(s) == [i \in 1..Len(s) |-> LowerChar(s[i])]

\* needle in s
Contains(s, needle) ==
    \E i \in 0..(Len(s) - Len(needle)) :
        \A j \in 1..Len(needle) : s[i + j] = needle[j]

\* the characters of s as one string
RECURSIVE Str(_)
Str(s) == IF s = <<>> THEN "" ELSE Head(s) \o Str(Tail(s))

\* the least element of a non-empty set of numbers
Least(S) == CHOOSE x \in S : \A y \in S : x <= y

\* str.split(): the maximal runs of non-whitespace characters, as strings
RECURSIVE SplitFrom(_, _)
SplitFrom(s, start) ==
    LET firsts == {i \in start..Len(s) : s[i] \notin Whitespace}
    IN IF firsts = {} THEN <<>>
       ELSE LET a == Least(firsts)
                e == Least({j \in a..Len(s) : j = Len(s) \/ s[j + 1] \in Whitespace})
            IN <<Str(SubSeq(s, a, e))>> \o SplitFrom(s, e + 1)

Split(s) == SplitFrom(s, 1)

\* str.splitlines(): cut at line breaks ("\r\n" is one break), no empty last line
RECURSIVE SplitLinesFrom(_, _)
SplitLinesFrom(s, start) ==
    LET breaks == {i \in start..Len(s) : s[i] \in LineBreaks}
    IN IF breaks = {}
       THEN IF start > Len(s) THEN <<>> ELSE <<SubSeq(s, start, Len(s))>>
       ELSE LET b == Least(breaks)
                e == IF s[b] = "\r" /\ b < Len(s) /\ s[b + 1] = "\n" THEN b + 1 ELSE b
            IN <<SubSeq(s, start, b - 1)>> \o SplitLinesFrom(s, e + 1)

SplitLines(s) == SplitLinesFrom(s, 1)

----------------------------------------------------------------------------
(* get_version_detail (lines 264-303).                                     *)

MarkerSerialNumber ==
    <<"S", "y", "s", "t", "e", "m", " ", "S", "e", "r", "i", "a", "l", " ", "N", "u", "m", "b", "e", "r">>
MarkerSerial ==
    <<"S", "y", "s", "t", "e", "m", " ", "s", "e", "r", "i", "a", "l">>
MarkerCisco ==
    <<"c", "i", "s", "c", "o">>
MarkerProcessor ==
    <<"p", "r", "o", "c", "e", "s", "s", "o", "r">>
MarkerChassis ==
    <<"c", "h", "a", "s", "s", "i", "s">>

\* line 282
IsSerialLine(line) == Contains(line, MarkerSerialNumber) \/ Contains(line, MarkerSerial)

\* line 287
IsModelLine(line) ==
    /\ Contains(Lower(line), MarkerCisco)
    /\ Contains(Lower(line), MarkerProcessor) \/ Contains(Lower(line), MarkerChassis)

\* a pass that keeps the first value found
SerialStepFirst(info, line) ==
    IF IsSerialLine(line) /\ info = PyNone
    THEN Split(line)[Len(Split(line))]
    ELSE info

\* one pass of the loop body at lines 282-283: info after the line
SerialStep(info, line) ==
    IF IsSerialLine(line)
    THEN Split(line)[Len(Split(line))]
    ELSE info

\* one pass of the loop body at lines 287-290: info after the line
ModelStep(info, line) ==
    IF IsModelLine(line) /\ Len(Split(line)) >= 2
    THEN Split(line)[2]
    ELSE info

\* the two for loops (lines 281 and 286), info being None at line 277
RECURSIVE Scan(_, _, _)
Scan(lines, detail, info) ==
    IF lines = <<>> THEN info
    ELSE Scan(Tail(lines), detail,
              IF detail = "serial" THEN SerialStep(info, Head(lines))
              ELSE IF detail = "model" THEN ModelStep(info, Head(lines))
              ELSE info)

\* what a missing fact reads as (lines 294 and 300)
MissingFact == NoData

\* version_info is [str |-> is it a str, chars |-> its characters]: splitlines
\* of anything but a str raises inside the try (line 292) and gives 'No data';
\* `not info` (line 297) is true of None only, a token being never empty.
get_version_detail(version_info, detail) ==
    IF ~version_info.str
    THEN MissingFact
    ELSE LET info == Scan(SplitLines(version_info.chars), detail, PyNone)
         IN IF info = PyNone THEN MissingFact ELSE info

----------------------------------------------------------------------------
(* get_switch_details (lines 194-261): values and pure parts.              *)

\* interfaces = None (line 210), or the list send_command returned (line 226)
NoInterfaces == [some |-> FALSE, recs |-> <<>>]
SomeInterfaces(recs) == [some |-> TRUE, recs |-> recs]

\* return None, return results
NoDetails == [some |-> FALSE, rows |-> <<>>]
SomeDetails(rows) == [some |-> TRUE, rows |-> rows]

\* `if interfaces:` (line 233), `if _details:` (line 182)
TruthyInterfaces(i) == i.some /\ i.recs # <<>>
TruthyDetails(d) == d.some /\ d.rows # <<>>

\* interface['port'] and interface['status'] both exist (lines 235-236)
WellFormed(rec) == "port" \in DOMAIN rec /\ "status" \in DOMAIN rec

\* The loop of lines 234-237 from a given ports list: a record without the key
\* raises KeyError, which leaves the loop (and the function, line 246).
RECURSIVE ParseFrom(_, _)
ParseFrom(recs, acc) ==
    IF recs = <<>> THEN [raised |-> FALSE, ports |-> acc]
    ELSE IF WellFormed(Head(recs))
         THEN ParseFrom(Tail(recs), Append(acc, <<Head(recs).port, Head(recs).status>>))
         ELSE [raised |-> TRUE, ports |-> acc]

\* a parse that steps over a record it cannot read
RECURSIVE ParseSkipping(_, _)
ParseSkipping(recs, acc) ==
    IF recs = <<>> THEN [raised |-> FALSE, ports |-> acc]
    ELSE IF WellFormed(Head(recs))
         THEN ParseSkipping(Tail(recs), Append(acc, <<Head(recs).port, Head(recs).status>>))
         ELSE ParseSkipping(Tail(recs), acc)

\* the port parse with records it cannot read stepped over
ParsePortsSkipping(i) ==
    IF TruthyInterfaces(i) THEN ParseSkipping(i.recs, <<>>)
    ELSE [raised |-> FALSE, ports |-> <<>>]

\* lines 233-237, ports being [] at line 211
ParsePorts(i) ==
    IF TruthyInterfaces(i) THEN ParseFrom(i.recs, <<>>)
    ELSE [raised |-> FALSE, ports |-> <<>>]

\* line 255: one row per port; reading device_model before any assignment
\* raises NameError, caught at line 259
FormatRows(h, sn, dm, ps) ==
    IF dm = Unbound
    THEN [raised |-> TRUE, rows |-> <<>>]
    ELSE [raised |-> FALSE,
          rows |-> [i \in 1..Len(ps) |-> <<h, sn, dm, ps[i][1], ps[i][2]>>]]

\* lines 250-261: what get_switch_details returns once the ports are parsed
ReturnDetails(h, sn, dm, ps) ==
    IF ps = <<>> THEN NoDetails
    ELSE IF FormatRows(h, sn, dm, ps).raised THEN NoDetails
    ELSE SomeDetails(FormatRows(h, sn, dm, ps).rows)

\* a handler without the generic except clause of line 246
OnConnectFaultUncaught(kind) == IF kind = "other" THEN "crashed" ELSE "collect"

\* the three except clauses of lines 240-248: where a fault of ConnectHandler
\* leaves the run ("collect": get_switch_details returned None)
OnConnectFault(kind) == "collect"

\* a version fault that leaves the with block at once
AfterVersionAbort(ok) == IF ok THEN "ports" ELSE "close"

\* lines 221-225: the port command follows the version command, fault or not
AfterVersion(ok) == "ports"

----------------------------------------------------------------------------
(* execute_data_requests (lines 141-191): values and pure parts.           *)

\* a header that lacks the last column
HeaderFourColumns == <<"IP", "SN", "Model", "Port">>

\* line 173
Header == <<"IP", "SN", "Model", "Port", "PortStatus">>

\* line 165
CredentialsMissing(u, p) == u = "" /\ p = ""

\* a loop that breaks where line 186 continues
NextDeviceBreak(i, n, d) == IF TruthyDetails(d) THEN i + 1 ELSE n + 1

\* lines 182-186: the inner loop goes on with the next device either way
\* (n is the number of devices of the family)
NextDevice(i, n, d) == i + 1

\* line 183
Extend(table, d) == table \o d.rows

\* lines 188-189
StoreFamily(d, family, table) ==
    IF Len(table) > 1
    THEN [f \in DOMAIN d \cup {family} |-> IF f = family THEN table ELSE d[f]]
    ELSE d

----------------------------------------------------------------------------
(* The inputs of a run: [config.json] and what the devices answer.         *)

\* device families (netmiko device_type) in declaration order, and hosts
FamilyPool == <<"cisco_ios", "cisco_nxos">>
HostPool == {"10.0.0.1", "10.0.0.2"}

UserPool == {"", "admin"}
PasswordPool == {"", "secret"}

HostSeqs == UNION {[1..n -> HostPool] : n \in 0..MaxDevices}

\* what a family maps to: a list of hosts, or a value that cannot be iterated
FamilyValues ==
    {[kind |-> "list", hosts |-> hs] : hs \in HostSeqs} \cup {[kind |-> "int", hosts |-> <<>>]}

RECURSIVE TotalHosts(_)
TotalHosts(r) == IF r = <<>> THEN 0 ELSE Len(Head(r).hosts) + TotalHosts(Tail(r))

\* the 'devices' mappings: family i of the mapping is FamilyPool[i]
Rosters ==
    UNION {{r \in [1..k -> FamilyValues] : TotalHosts(r) <= MaxDevices} : k \in 0..Len(FamilyPool)}

\* the 'devices' entry: a mapping, absent, or a value that cannot be iterated
DevicesEntries ==
    {[kind |-> "dict", families |-> r] : r \in Rosters}
    \cup {[kind |-> "missing", families |-> <<>>], [kind |-> "null", families |-> <<>>]}

Configs == [username : UserPool, password : PasswordPool, devices : DevicesEntries]

\* how ConnectHandler ends (line 215): a session, or one of the three faults
TransportFaults == {"timeout", "auth", "other"}

\* join lines with "\n"
RECURSIVE Join(_)
Join(lines) ==
    IF lines = <<>> THEN <<>>
    ELSE IF Len(lines) = 1 THEN Head(lines)
    ELSE Head(lines) \o <<"\n">> \o Join(Tail(lines))

LineSerialNumber ==
    <<"S", "y", "s", "t", "e", "m", " ", "S", "e", "r", "i", "a", "l", " ", "N", "u", "m", "b", "e", "r", " ", ":", " ", "F", "O", "C", "1">>
LineSerialLower ==
    <<"S", "y", "s", "t", "e", "m", " ", "s", "e", "r", "i", "a", "l", " ", "n", "u", "m", "b", "e", "r", ":", " ", "F", "D", "O", "2">>
LineSerialTabbed ==
    <<"S", "y", "s", "t", "e", "m", " ", "s", "e", "r", "i", "a", "l", "\t", "n", "u", "m", "b", "e", "r", " ", " ", "T", "7", " ">>
LineSerialWrongCase ==
    <<"s", "y", "s", "t", "e", "m", " ", "s", "e", "r", "i", "a", "l", " ", "n", "u", "m", "b", "e", "r", ":", " ", "X", "9">>
LineBoardId ==
    <<"P", "r", "o", "c", "e", "s", "s", "o", "r", " ", "b", "o", "a", "r", "d", " ", "I", "D", " ", "F", "X", "S", "3">>
LineModelProcessor ==
    <<"c", "i", "s", "c", "o", " ", "W", "S", "-", "C", "2", "9", "6", "0", " ", "(", "P", "o", "w", "e", "r", "P", "C", "4", "0", "5", ")", " ", "p", "r", "o", "c", "e", "s", "s", "o", "r">>
LineModelChassis ==
    <<"C", "i", "s", "c", "o", " ", "C", "9", "3", "0", "0", " ", "C", "h", "a", "s", "s", "i", "s">>
LineModelOneToken ==
    <<"c", "i", "s", "c", "o", "p", "r", "o", "c", "e", "s", "s", "o", "r">>
LineSoftware ==
    <<"C", "i", "s", "c", "o", " ", "I", "O", "S", " ", "S", "o", "f", "t", "w", "a", "r", "e">>
LineBothFacts ==
    <<"c", "i", "s", "c", "o", " ", "c", "h", "a", "s", "s", "i", "s", " ", "S", "y", "s", "t", "e", "m", " ", "s", "e", "r", "i", "a", "l", " ", "A", "B", "1">>

LinePool ==
    {LineSerialNumber, LineSerialLower, LineSerialTabbed, LineSerialWrongCase, LineBoardId,
     LineModelProcessor, LineModelChassis, LineModelOneToken, LineSoftware, LineBothFacts}

\* a str, and a value that is no str
PyStr(chars) == [str |-> TRUE, chars |-> chars]
NotAStr == [str |-> FALSE, chars |-> <<>>]

\* "show version" answers of a device in a run of the batch
VersionFull == PyStr(Join(<<LineSoftware, LineModelProcessor, LineSerialNumber>>))
VersionSerialOnly == PyStr(Join(<<LineSoftware, LineSerialLower>>))
VersionAnswers == {VersionFull, VersionSerialOnly}

\* "show version" answers handed to the fact extractor alone
VersionTexts ==
    {PyStr(Join(ls)) : ls \in UNION {[1..n -> LinePool] : n \in 0..MaxLines}} \cup {NotAStr}

DetailPool == {"serial", "model"}

\* interface records of a parsed "show interfaces status" answer
RecUp == [port |-> "Gi0/1", status |-> "connected"]
RecDown == [port |-> "Gi0/2", status |-> "notconnect"]
RecDisabled == [port |-> "Gi0/3", status |-> "disabled"]
RecNoStatus == [port |-> "Gi0/4"]
RecNoPort == [status |-> "connected"]
RecordPool == {RecUp, RecDown, RecDisabled, RecNoStatus, RecNoPort}

\* "show interfaces status" answers of a device in a run of the batch
PortAnswers == {<<>>, <<RecUp, RecDown>>, <<RecUp, RecNoStatus>>}

\* "show interfaces status" answers handed to the port parse alone
PortResponses == UNION {[1..n -> RecordPool] : n \in 0..MaxPorts}

FxIdle == [version_info |-> NotAStr, detail |-> "serial"]
FxNotRun == [run |-> FALSE, value |-> ""]
PnIdle == [host |-> "", serial_number |-> PyNone, device_model |-> Unbound, interfaces |-> NoInterfaces]
PnNotRun == [run |-> FALSE, ports |-> <<>>, details |-> NoDetails]
ConfigIdle == [username |-> "", password |-> "", devices |-> [kind |-> "missing", families |-> <<>>]]

----------------------------------------------------------------------------
(* The run of execute_data_requests.                                       *)

Families == config.devices.families
Family == FamilyPool[fi]
Hosts == Families[fi].hosts

DriverStart ==
    /\ pc = "start"
    /\ fi = 1
    /\ di = 1
    /\ results = <<>>
    /\ data = [f \in {} |-> <<>>]
    /\ host = ""
    /\ serial_number = PyNone
    /\ device_model = Unbound
    /\ interfaces = NoInterfaces
    /\ ports = <<>>
    /\ details = NoDetails
    /\ open = 0
    /\ events = <<>>
    /\ calls = <<>>

Init ==
    /\ config \in Configs
    /\ DriverStart
    /\ fx_in = FxIdle /\ fx_out = FxNotRun
    /\ pn_in = PnIdle /\ pn_out = PnNotRun

\* the record of the call in progress
Call == calls[Len(calls)]
Note(field, value) == [calls EXCEPT ![Len(calls)][field] = value]

\* lines 155-162
ReadConfig ==
    /\ pc = "start"
    /\ pc' = IF config.devices.kind = "missing" THEN "exited" ELSE "validate"
    /\ UNCHANGED <<config, fi, di, results, data, host, serial_number, device_model,
                   interfaces, ports, details, open, events, calls, fx_in, fx_out, pn_in, pn_out>>

\* lines 164-167
ValidateCredentials ==
    /\ pc = "validate"
    /\ pc' = IF CredentialsMissing(config.username, config.password) THEN "exited" ELSE "family"
    /\ UNCHANGED <<config, fi, di, results, data, host, serial_number, device_model,
                   interfaces, ports, details, open, events, calls, fx_in, fx_out, pn_in, pn_out>>

\* lines 170-173: the outer loop takes the next family, or ends
NextFamily ==
    /\ pc = "family"
    /\ IF config.devices.kind # "dict"
       THEN pc' = "crashed" /\ UNCHANGED <<results, di>>
       ELSE IF fi > Len(Families)
            THEN pc' = "return" /\ UNCHANGED <<results, di>>
            ELSE pc' = "device" /\ results' = <<Header>> /\ di' = 1
    /\ UNCHANGED <<config, fi, data, host, serial_number, device_model,
                   interfaces, ports, details, open, events, calls, fx_in, fx_out, pn_in, pn_out>>

\* line 174 on a value that cannot be iterated: TypeError, caught nowhere
IterateFault ==
    /\ pc = "device"
    /\ Families[fi].kind # "list"
    /\ pc' = "crashed"
    /\ UNCHANGED <<config, fi, di, results, data, host, serial_number, device_model,
                   interfaces, ports, details, open, events, calls, fx_in, fx_out, pn_in, pn_out>>

\* lines 174-181 and 209-211: the inner loop takes the next device and calls
\* get_switch_details
CallSwitchDetails ==
    /\ pc = "device"
    /\ Families[fi].kind = "list"
    /\ di <= Len(Hosts)
    /\ host' = Hosts[di]
    /\ serial_number' = PyNone
    /\ device_model' = Unbound
    /\ interfaces' = NoInterfaces
    /\ ports' = <<>>
    /\ events' = <<>>
    /\ calls' = Append(calls, [family |-> Family, host |-> Hosts[di], conn |-> "-",
                               version |-> "-", nports |-> 0, nrows |-> 0])
    /\ pc' = "connect"
    /\ UNCHANGED <<config, fi, di, results, data, details, open, fx_in, fx_out, pn_in, pn_out>>

\* line 215, entering the with block
Connect ==
    /\ pc = "connect"
    /\ open' = open + 1
    /\ events' = Append(events, "open")
    /\ calls' = Note("conn", "ok")
    /\ pc' = "version"
    /\ UNCHANGED <<config, fi, di, results, data, host, serial_number, device_model,
                   interfaces, ports, details, fx_in, fx_out, pn_in, pn_out>>

\* line 215 raising, lines 240-248
ConnectFault ==
    /\ pc = "connect"
    /\ \E kind \in TransportFaults :
        /\ calls' = Note("conn", kind)
        /\ pc' = OnConnectFault(kind)
    /\ details' = NoDetails
    /\ UNCHANGED <<config, fi, di, results, data, host, serial_number, device_model,
                   interfaces, ports, open, events, fx_in, fx_out, pn_in, pn_out>>

\* lines 217-220
SendVersion ==
    /\ pc = "version"
    /\ \E version_info \in VersionAnswers :
        /\ serial_number' = get_version_detail(version_info, "serial")
        /\ device_model' = get_version_detail(version_info, "model")
    /\ events' = Append(events, "version")
    /\ calls' = Note("version", "ok")
    /\ pc' = AfterVersion(TRUE)
    /\ UNCHANGED <<config, fi, di, results, data, host, interfaces, ports, details, open,
                   fx_in, fx_out, pn_in, pn_out>>

\* line 218 raising, lines 221-222
SendVersionFault ==
    /\ pc = "version"
    /\ events' = Append(events, "version")
    /\ calls' = Note("version", "fault")
    /\ pc' = AfterVersion(FALSE)
    /\ UNCHANGED <<config, fi, di, results, data, host, serial_number, device_model,
                   interfaces, ports, details, open, fx_in, fx_out, pn_in, pn_out>>

\* lines 225-226
SendPorts ==
    /\ pc = "ports"
    /\ \E recs \in PortAnswers : interfaces' = SomeInterfaces(recs)
    /\ events' = Append(events, "ports")
    /\ pc' = "close"
    /\ UNCHANGED <<config, fi, di, results, data, host, serial_number, device_model,
                   ports, details, open, calls, fx_in, fx_out, pn_in, pn_out>>

\* line 226 raising, lines 228-229
SendPortsFault ==
    /\ pc = "ports"
    /\ events' = Append(events, "ports")
    /\ pc' = "close"
    /\ UNCHANGED <<config, fi, di, results, data, host, serial_number, device_model,
                   interfaces, ports, details, open, calls, fx_in, fx_out, pn_in, pn_out>>

\* leaving the with block of line 215: the session is closed
CloseSession ==
    /\ pc = "close"
    /\ open' = open - 1
    /\ events' = Append(events, "close")
    /\ pc' = "parse"
    /\ UNCHANGED <<config, fi, di, results, data, host, serial_number, device_model,
                   interfaces, ports, details, calls, fx_in, fx_out, pn_in, pn_out>>

\* lines 231-237, and lines 246-248 when a record raises
ParseInterfaces ==
    /\ pc = "parse"
    /\ ports' = ParsePorts(interfaces).ports
    /\ IF ParsePorts(interfaces).raised
       THEN details' = NoDetails /\ pc' = "collect" /\ UNCHANGED calls
       ELSE /\ pc' = "format"
            /\ calls' = Note("nports", Len(ParsePorts(interfaces).ports))
            /\ UNCHANGED details
    /\ UNCHANGED <<config, fi, di, results, data, host, serial_number, device_model,
                   interfaces, open, events, fx_in, fx_out, pn_in, pn_out>>

\* lines 250-261
FormatResults ==
    /\ pc = "format"
    /\ details' = ReturnDetails(host, serial_number, device_model, ports)
    /\ pc' = "collect"
    /\ UNCHANGED <<config, fi, di, results, data, host, serial_number, device_model,
                   interfaces, ports, open, events, calls, fx_in, fx_out, pn_in, pn_out>>

\* lines 181-186: back in the inner loop with _details
CollectDetails ==
    /\ pc = "collect"
    /\ results' = IF TruthyDetails(details) THEN Extend(results, details) ELSE results
    /\ calls' = Note("nrows", Len(details.rows))
    /\ di' = NextDevice(di, Len(Hosts), details)
    /\ pc' = "device"
    /\ UNCHANGED <<config, fi, data, host, serial_number, device_model,
                   interfaces, ports, details, open, events, fx_in, fx_out, pn_in, pn_out>>

\* lines 187-189: the family's devices are exhausted
FamilyEnd ==
    /\ pc = "device"
    /\ Families[fi].kind = "list"
    /\ di > Len(Hosts)
    /\ data' = StoreFamily(data, Family, results)
    /\ fi' = fi + 1
    /\ pc' = "family"
    /\ UNCHANGED <<config, di, results, host, serial_number, device_model,
                   interfaces, ports, details, open, events, calls, fx_in, fx_out, pn_in, pn_out>>

\* line 191
Return ==
    /\ pc = "return"
    /\ pc' = "done"
    /\ UNCHANGED <<config, fi, di, results, data, host, serial_number, device_model,
                   interfaces, ports, details, open, events, calls, fx_in, fx_out, pn_in, pn_out>>

Next ==
    \/ ReadConfig
    \/ ValidateCredentials
    \/ NextFamily
    \/ IterateFault
    \/ CallSwitchDetails
    \/ Connect
    \/ ConnectFault
    \/ SendVersion
    \/ SendVersionFault
    \/ SendPorts
    \/ SendPortsFault
    \/ CloseSession
    \/ ParseInterfaces
    \/ FormatResults
    \/ CollectDetails
    \/ FamilyEnd
    \/ Return

Spec == Init /\ [][Next]_vars

----------------------------------------------------------------------------
(* get_version_detail alone.                                               *)

DriverIdle ==
    /\ config = ConfigIdle
    /\ pc = "idle"
    /\ fi = 1
    /\ di = 1
    /\ results = <<>>
    /\ data = [f \in {} |-> <<>>]
    /\ host = ""
    /\ serial_number = PyNone
    /\ device_model = Unbound
    /\ interfaces = NoInterfaces
    /\ ports = <<>>
    /\ details = NoDetails
    /\ open = 0
    /\ events = <<>>
    /\ calls = <<>>

InitFx ==
    /\ DriverIdle
    /\ fx_in \in [version_info : VersionTexts, detail : DetailPool]
    /\ fx_out = FxNotRun
    /\ pn_in = PnIdle /\ pn_out = PnNotRun

ExtractFact ==
    /\ ~fx_out.run
    /\ fx_out' = [run |-> TRUE, value |-> get_version_detail(fx_in.version_info, fx_in.detail)]
    /\ UNCHANGED <<driverVars, fx_in, pn_in, pn_out>>

NextFx == ExtractFact

SpecFx == InitFx /\ [][NextFx]_vars

----------------------------------------------------------------------------
(* The port parse and the return of get_switch_details alone (lines        *)
(* 231-261), the session being closed.                                     *)

FactPairs ==
    {<<get_version_detail(VersionFull, "serial"), get_version_detail(VersionFull, "model")>>,
     <<PyNone, Unbound>>}

InitPn ==
    /\ DriverIdle
    /\ fx_in = FxIdle /\ fx_out = FxNotRun
    /\ \E h \in HostPool, f \in FactPairs, recs \in PortResponses :
        pn_in = [host |-> h, serial_number |-> f[1], device_model |-> f[2],
                 interfaces |-> SomeInterfaces(recs)]
    /\ pn_out = PnNotRun

NormalizePorts ==
    /\ ~pn_out.run
    /\ LET parse == ParsePorts(pn_in.interfaces)
       IN pn_out' = [run |-> TRUE,
                     ports |-> parse.ports,
                     details |-> IF parse.raised THEN NoDetails
                                 ELSE ReturnDetails(pn_in.host, pn_in.serial_number,
                                                    pn_in.device_model, parse.ports)]
    /\ UNCHANGED <<driverVars, fx_in, fx_out, pn_in>>

NextPn == NormalizePorts

SpecPn == InitPn /\ [][NextPn]_vars

----------------------------------------------------------------------------
(* Properties.                                                             *)

\* the roster is a mapping of families to lists of hosts
WellFormedRoster ==
    /\ config.devices.kind = "dict"
    /\ \A i \in 1..Len(Families) : Families[i].kind = "list"

\* both credentials are given
CredentialsGiven == config.username # "" /\ config.password # ""

\* the (family, host) pairs of a roster in declaration order
RECURSIVE Flatten(_, _)
Flatten(r, i) ==
    IF i > Len(r) THEN <<>>
    ELSE [j \in 1..Len(r[i].hosts) |-> <<FamilyPool[i], r[i].hosts[j]>>] \o Flatten(r, i + 1)

\* the (family, host) pairs get_switch_details was called with, in call order
Visited == [i \in 1..Len(calls) |-> <<calls[i].family, calls[i].host>>]

IsPrefix(s, t) == Len(s) <= Len(t) /\ SubSeq(t, 1, Len(s)) = s

\* every table the run holds: the Batch Result's and the one being built
Tables == {data[f] : f \in DOMAIN data} \cup (IF results = <<>> THEN {} ELSE {results})

\* C1: with a well-formed roster and non-empty credentials, get_switch_details
\* is called exactly once per host of every family, in declaration order,
\* whatever each device does; the run neither exits nor crashes before the
\* end of the roster, and ends having visited all of it.
C1_EveryDeviceOnceInOrder ==
    (WellFormedRoster /\ CredentialsGiven) =>
        /\ pc \notin {"exited", "crashed"}
        /\ IsPrefix(Visited, Flatten(Families, 1))
        /\ pc = "done" => Visited = Flatten(Families, 1)

\* C1 witness: a run over two families ended, the first device having timed
\* out and the second having given rows.
C1_Witness ==
    /\ pc = "done"
    /\ WellFormedRoster /\ CredentialsGiven
    /\ Len(calls) = 2
    /\ calls[1].family # calls[2].family
    /\ calls[1].conn = "timeout"
    /\ calls[2].nrows > 0

\* C2: a transport fault of any of the three kinds makes get_switch_details
\* return None and never leaves it as a fault (a well-formed run never
\* crashes); the faulted call gives no rows; every row of every table comes
\* from a call to that host whose session opened; and the run still visits
\* every device of the roster.
C2_TransportFaultIsolated ==
    /\ (pc = "collect" /\ Call.conn \in TransportFaults) => details = NoDetails
    /\ \A i \in 1..Len(calls) : calls[i].conn \in TransportFaults => calls[i].nrows = 0
    /\ \A t \in Tables : \A k \in 2..Len(t) :
          \E i \in 1..Len(calls) : calls[i].host = t[k][1] /\ calls[i].conn = "ok"
    /\ WellFormedRoster =>
          /\ pc # "crashed"
          /\ pc = "done" => Len(calls) = TotalHosts(Families)

\* C2 witness: the first device failed with the generic transport fault, the
\* run went on and the next device gave rows.
C2_Witness ==
    /\ pc = "done"
    /\ Len(calls) = 2
    /\ calls[1].conn = "other"
    /\ calls[2].conn = "ok"
    /\ calls[2].nrows > 0

\* C3: at the end of a run (here: one with both credentials given) a family
\* is a key of the Batch Result if and only if one of its devices yielded at
\* least one Port Record.
C3_FamilyKeyIffPortRecords ==
    (pc = "done" /\ CredentialsGiven) =>
        \A i \in 1..Len(Families) :
            (FamilyPool[i] \in DOMAIN data) <=>
                (\E k \in 1..Len(calls) : calls[k].family = FamilyPool[i] /\ calls[k].nports >= 1)

\* C4: if the username or the password is empty, no device session is ever
\* attempted in the run.
C4_EmptyCredentialAborts ==
    (config.username = "" \/ config.password = "") => calls = <<>>

\* C5: if the roster is missing or not well-formed, no device is ever
\* contacted, families before the malformed entry included (here: in a run
\* with both credentials given).
C5_MalformedRosterAborts ==
    (~WellFormedRoster /\ CredentialsGiven) => calls = <<>>

\* C6: a device whose session opened and that reported N >= 1 Port Records
\* returns N rows in port order, row i being [host, serial, model, port_i,
\* status_i] with the two facts present, whether the version command
\* succeeded or not (here: in a run with both credentials given).
C6_RowPerPort ==
    (pc = "collect" /\ CredentialsGiven /\ Call.conn = "ok" /\ Call.nports >= 1) =>
        /\ details.some
        /\ Len(details.rows) = Len(interfaces.recs)
        /\ serial_number \notin {PyNone, Unbound}
        /\ device_model \notin {PyNone, Unbound}
        /\ \A i \in 1..Len(details.rows) :
              details.rows[i] = <<host, serial_number, device_model,
                                  interfaces.recs[i].port, interfaces.recs[i].status>>

\* the values a row's fields can hold in a run
SerialValues == {get_version_detail(v, "serial") : v \in VersionAnswers}
ModelValues == {get_version_detail(v, "model") : v \in VersionAnswers}
PortNames == {r.port : r \in {x \in RecordPool : "port" \in DOMAIN x}}
PortStatuses == {r.status : r \in {x \in RecordPool : "status" \in DOMAIN x}}

\* C7 as stated: the first row of every table of the Batch Result is
\* [Host, SerialNumber, Model, Port, PortStatus] (here: in a run with both
\* credentials given).
C7_HeaderAsStated ==
    CredentialsGiven =>
        \A f \in DOMAIN data :
            data[f][1] = <<"Host", "SerialNumber", "Model", "Port", "PortStatus">>

\* C7 (amended): every table of the Batch Result starts with the header row
\* [IP, SN, Model, Port, PortStatus], the header occurs once, and every row
\* after it has 5 fields: a host of that family's roster entry, a serial
\* number, a model, a port and a port status, in that order.
C7_TableShape ==
    \A f \in DOMAIN data :
        /\ Len(data[f]) >= 2
        /\ data[f][1] = <<"IP", "SN", "Model", "Port", "PortStatus">>
        /\ \A k \in 2..Len(data[f]) :
              /\ data[f][k] # data[f][1]
              /\ Len(data[f][k]) = 5
              /\ \E i \in 1..Len(calls) : calls[i].family = f /\ calls[i].host = data[f][k][1]
              /\ data[f][k][2] \in SerialValues
              /\ data[f][k][3] \in ModelValues
              /\ data[f][k][4] \in PortNames
              /\ data[f][k][5] \in PortStatuses

\* C7 witness: a table of the Batch Result with the header and two rows.
C7_Witness ==
    \E f \in DOMAIN data : Len(data[f]) >= 3

\* are all records of a response well-formed
AllWellFormed(recs) == \A i \in 1..Len(recs) : WellFormed(recs[i])

\* C8: a response of N well-formed records gives exactly the N Port Records
\* (port, status) in the response's order, none filtered; a response with a
\* malformed record at any position gives the device no rows at all.
C8_ParseAllOrNothing ==
    pn_out.run =>
        LET recs == pn_in.interfaces.recs
        IN IF AllWellFormed(recs)
           THEN pn_out.ports = [i \in 1..Len(recs) |-> <<recs[i].port, recs[i].status>>]
           ELSE pn_out.details = NoDetails

\* C8 witness: a response whose second record has no status, between two
\* well-formed ones, of a device whose facts were read, gave no rows.
C8_Witness ==
    /\ pn_out.run
    /\ pn_in.interfaces.recs = <<RecUp, RecNoStatus, RecDisabled>>
    /\ pn_in.device_model # Unbound
    /\ pn_out.details = NoDetails

\* is the line a candidate for the detail
IsCandidate(line, detail) ==
    IF detail = "serial" THEN IsSerialLine(line)
    ELSE IsModelLine(line) /\ Len(Split(line)) >= 2

\* the fact of the last candidate line, or the sentinel
ExpectedFact(version_info, detail, sentinel) ==
    IF ~version_info.str THEN sentinel
    ELSE LET lines == SplitLines(version_info.chars)
             cand == {i \in 1..Len(lines) : IsCandidate(lines[i], detail)}
         IN IF cand = {} THEN sentinel
            ELSE LET last == CHOOSE i \in cand : \A j \in cand : j <= i
                     tokens == Split(lines[last])
                 IN IF detail = "serial" THEN tokens[Len(tokens)] ELSE tokens[2]

\* C9 as stated: the result is the fact of the last candidate line, and the
\* sentinel "no data" when there is none or the scan raises.
C9_SentinelAsStated ==
    fx_out.run => fx_out.value = ExpectedFact(fx_in.version_info, fx_in.detail, "no data")

\* C9 (amended): get_version_detail returns the last token of the last line
\* holding a serial marker, or the second token of the last line that holds
\* the vendor marker and a hardware token (any case) and has two tokens, and
\* the sentinel "No data" when there is no such line or the scan raises.
C9_LastMatchWins ==
    fx_out.run => fx_out.value = ExpectedFact(fx_in.version_info, fx_in.detail, "No data")

\* C9 witness: two serial lines with different values, the later one read.
C9_Witness ==
    /\ fx_out.run
    /\ fx_in.detail = "serial"
    /\ fx_in.version_info = PyStr(Join(<<LineSerialNumber, LineSerialLower>>))
    /\ fx_out.value = "FDO2"

\* C10: at most one session is open at any time and none when a device is
\* about to be connected; once a session is open the version command and
\* then the port command are each sent once, the second also after a fault of
\* the first, and the session is closed before the response is parsed and
\* before get_switch_details returns; a failed connect sends nothing.
C10_SessionLifecycle ==
    /\ open \in {0, 1}
    /\ pc \notin {"version", "ports", "close"} => open = 0
    /\ pc = "version" => open = 1 /\ events = <<"open">>
    /\ pc = "ports" => open = 1 /\ events = <<"open", "version">>
    /\ pc = "close" => open = 1 /\ events = <<"open", "version", "ports">>
    /\ pc \in {"parse", "format"} => events = <<"open", "version", "ports", "close">>
    /\ pc = "collect" =>
          events = IF Call.conn = "ok" THEN <<"open", "version", "ports", "close">> ELSE <<>>

\* C10 witness: the second device of a run returned, its version command
\* having failed and its port command having answered afterwards.
C10_Witness ==
    /\ pc = "collect"
    /\ Len(calls) = 2
    /\ Call.version = "fault"
    /\ TruthyInterfaces(interfaces)
    /\ events = <<"open", "version", "ports", "close">>
    /\ open = 0

====
